---- MODULE Spec2Model ----
(***************************************************************************)
(* frfix.c: an LD_PRELOAD shim for Fieldrunners.  It interposes            *)
(*   - snd_pcm_open                  (always built),                      *)
(*   - snd_async_add_pcm_handler     (#ifdef FIXDELAY),                    *)
(*   - glutReshapeFunc, glViewport, glutReshapeWindow, glutKeyboardFunc,  *)
(*     glutMouseFunc, glutPassiveMotionFunc          (#ifdef CHANGERES),  *)
(* and installs the wrappers fake_callback, init_manglers, faked_kbfunc,   *)
(* faked_mousefunc and faked_motionfunc in the real libraries.            *)
(*                                                                         *)
(* The state is the shim's globals and function-local statics, plus what   *)
(* the environment holds: which wrapper each real library has been handed, *)
(* which symbols dlsym(RTLD_NEXT, ..) is known not to find, and whether    *)
(* the process has died.  Every action is one whole call of one exported   *)
(* function or wrapper; `last` names that call and its inputs, `calls` is  *)
(* the sequence of calls it made out of the shim.                          *)
(***************************************************************************)
EXTENDS Integers, Sequences, FiniteSets, TLC

VARIABLES
    real,           \* the static real_func / glvp / glrw slot of each function
    lookups,        \* number of dlsym() calls made for each symbol
    missing,        \* symbols dlsym(RTLD_NEXT, ..) has been seen not to find
    fr_callback,    \* line 44
    fr_kbfunc,      \* line 129
    fr_mousefunc,   \* line 162
    fr_motionfunc,  \* line 166
    act_w, act_h, act_xoff, act_yoff,   \* line 89
    fs,             \* line 90
    installed,      \* the handler each real registration function was given
    win,            \* the size of the last reshape event, <<>> before the first
    crashed,        \* the process died (call through a null pointer)
    last,           \* the call that produced this state, with its inputs
    calls,          \* the calls that call made out of the shim, in order
    thr             \* where each thread stands inside a call it has not finished

vars == <<real, lookups, missing, fr_callback, fr_kbfunc, fr_mousefunc,
          fr_motionfunc, act_w, act_h, act_xoff, act_yoff, fs, installed,
          win, crashed, last, calls, thr>>

audioVars == <<fr_callback>>
glutVars  == <<fr_kbfunc, fr_mousefunc, fr_motionfunc>>
geomVars  == <<act_w, act_h, act_xoff, act_yoff, win>>

----------------------------------------------------------------------------
(* Bounds of the model *)

\* largest window width and height of the exhaustive geometry check
MaxDim == 24
\* dlsym() calls per symbol after which no further first-use lookup is explored
MaxLookups == 3

(* Program constants *)

\* -DFIXDELAY=1024, the build line of the header comment
FIXDELAY == 1024
\* case 'q'
KEY_q == 113
\* case 'f'
KEY_f == 102
\* glrw(1280,720)
DEFAULT_W == 1280
DEFAULT_H == 720

NULL == "NULL"

\* the symbols the shim resolves with dlsym(RTLD_NEXT, ..)
Symbols == {"snd_pcm_open", "snd_async_add_pcm_handler", "glViewport",
            "glutReshapeFunc", "glutReshapeWindow", "glutKeyboardFunc",
            "glutMouseFunc", "glutPassiveMotionFunc"}

\* the threads that may call into the shim: the main thread and one more
Threads == {1, 2}
\* a thread outside the shim
Idle == [pc |-> "idle", fn |-> "", cb |-> NULL, res |-> NULL]

\* the registrations the real libraries keep
Hooks == {"pcm", "reshape", "keyboard", "mouse", "motion"}

----------------------------------------------------------------------------
(* C integer arithmetic *)

\* C's / truncates toward zero
CDiv(a, b) == IF a >= 0 THEN a \div b ELSE -((-a) \div b)

----------------------------------------------------------------------------
(* The record of a call and of the calls it makes *)

\* kind: "real" a library entry point reached through a dlsym'ed pointer,
\*       "lib"  a library entry point the dynamic linker bound directly,
\*       "app"  a callback of the application
Call(kind, fn, name, cb, args, ret) ==
    [kind |-> kind, fn |-> fn, name |-> name, cb |-> cb, args |-> args, ret |-> ret]

Op(op, name, cb, args, ret) ==
    [op |-> op, name |-> name, cb |-> cb, args |-> args, ret |-> ret]

AppCalls == SelectSeq(calls, LAMBDA c : c.kind = "app")
RealCalls == SelectSeq(calls, LAMBDA c : c.kind = "real")

----------------------------------------------------------------------------
(* Lazy symbol resolution: if (!real_func) real_func = dlsym(RTLD_NEXT, s) *)


\* if (!real_func): the slot is empty and dlsym is called
NeedsLookup(s) == real[s] = NULL

\* What dlsym can answer in this state.  Without a lookup there is nothing to
\* answer (found is fixed to TRUE); a symbol once seen missing stays missing,
\* the objects after the shim in the search order do not change.
DlsymCan(s, found) ==
    IF NeedsLookup(s)
    THEN lookups[s] < MaxLookups /\ (s \in missing => ~found)
    ELSE found

\* the value of the slot after  if (!real_func) real_func = dlsym(RTLD_NEXT, s)
Resolved(s, found) ==
    IF NeedsLookup(s) THEN (IF found THEN s ELSE NULL) ELSE real[s]

\* the statement itself
Resolve(s, found) ==
    /\ DlsymCan(s, found)
    /\ real' = [real EXCEPT ![s] = Resolved(s, found)]
    /\ lookups' = [lookups EXCEPT ![s] = IF NeedsLookup(s) THEN @ + 1 ELSE @]
    /\ missing' = IF NeedsLookup(s) /\ ~found THEN missing \cup {s} ELSE missing

----------------------------------------------------------------------------
(* Audio device redirector, lines 26-38 *)

\* the device name handed to the real snd_pcm_open
OpenName_passthrough(name) == name
OpenName(name) == "default"

snd_pcm_open(pcm, name, stream, mode, ret, found) ==
    /\ ~crashed
    /\ Resolve("snd_pcm_open", found)
    /\ LET f == Resolved("snd_pcm_open", found) IN
       IF f = NULL
       THEN /\ crashed' = TRUE
            /\ calls' = <<>>
            /\ last' = Op("snd_pcm_open", name, NULL, <<pcm, stream, mode>>, 0)
       ELSE /\ crashed' = crashed
            /\ calls' = <<Call("real", f, OpenName(name), NULL, <<pcm, stream, mode>>, ret)>>
            /\ last' = Op("snd_pcm_open", name, NULL, <<pcm, stream, mode>>, ret)
    /\ UNCHANGED <<thr, audioVars, glutVars, geomVars, fs, installed>>

----------------------------------------------------------------------------
(* Underrun-triggered callback wrapper, lines 40-82 *)

\* if (delay < (FIXDELAY))
TriggerEarly_orEqual(delay) == delay <= FIXDELAY
TriggerEarly(delay) == delay < FIXDELAY

\* the pcm a handler belongs to, as snd_async_handler_get_pcm answers
PcmOf(ahandler) == ahandler + 10

\* err is what snd_pcm_avail_delay returns; d is the value of the local
\* `delay` at line 61: what the query stored when err = 0, and whatever the
\* uninitialised local holds when the query failed and stored nothing.
fake_callback(ahandler, err, d) ==
    /\ ~crashed
    /\ installed["pcm"] = "fake_callback"
    /\ LET queries == <<Call("lib", "snd_async_handler_get_pcm", "", NULL,
                             <<ahandler>>, PcmOf(ahandler)),
                        Call("lib", "snd_pcm_avail_delay", "", NULL,
                             <<PcmOf(ahandler)>>, err)>>
       IN  IF TriggerEarly(d)
           THEN IF fr_callback = NULL
                THEN crashed' = TRUE /\ calls' = queries
                ELSE /\ crashed' = crashed
                     /\ calls' = Append(queries,
                            Call("app", fr_callback, "", NULL, <<ahandler>>, 0))
           ELSE crashed' = crashed /\ calls' = queries
    /\ last' = Op("fake_callback", "", NULL, <<ahandler, err, d>>, 0)
    /\ UNCHANGED <<thr, real, lookups, missing, audioVars, glutVars, geomVars, fs, installed>>

\* the callback handed to the real snd_async_add_pcm_handler
AddHandlerCallback_app(callback) == callback
AddHandlerCallback(callback) == "fake_callback"

snd_async_add_pcm_handler(handler, pcm, callback, private_data, ret, found) ==
    /\ ~crashed
    /\ Resolve("snd_async_add_pcm_handler", found)
    /\ fr_callback' = callback
    /\ LET f == Resolved("snd_async_add_pcm_handler", found) IN
       IF f = NULL
       THEN /\ crashed' = TRUE
            /\ calls' = <<>>
            /\ installed' = installed
            /\ last' = Op("snd_async_add_pcm_handler", "", callback,
                          <<handler, pcm, private_data>>, 0)
       ELSE /\ crashed' = crashed
            /\ calls' = <<Call("real", f, "", AddHandlerCallback(callback),
                               <<handler, pcm, private_data>>, ret)>>
            /\ installed' = IF ret = 0
                            THEN [installed EXCEPT !["pcm"] = AddHandlerCallback(callback)]
                            ELSE installed
            /\ last' = Op("snd_async_add_pcm_handler", "", callback,
                          <<handler, pcm, private_data>>, ret)
    /\ UNCHANGED <<thr, glutVars, geomVars, fs>>

----------------------------------------------------------------------------
(* Display/input remapping group, lines 84-182 *)

\* lines 98-113: the aspect-correct viewport of a w x h window
Geometry_uncentred(w, h) ==
    IF w = CDiv(h * 16, 9)
    THEN [w |-> w, h |-> h, xoff |-> 0, yoff |-> 0]
    ELSE IF w < CDiv(h * 16, 9)
    THEN LET ah == CDiv(w * 9, 16)
         IN  [w |-> w, h |-> ah, xoff |-> 0, yoff |-> h - ah]
    ELSE LET aw == CDiv(h * 16, 9)
         IN  [w |-> aw, h |-> h, xoff |-> w - aw, yoff |-> 0]
Geometry_squashed(w, h) ==
    IF w = CDiv(h * 16, 9)
    THEN [w |-> w, h |-> h, xoff |-> 0, yoff |-> 0]
    ELSE IF w < CDiv(h * 16, 9)
    THEN LET ah == CDiv(w * 9, 16)
         IN  [w |-> w, h |-> ah, xoff |-> 0, yoff |-> CDiv(h - ah, 2)]
    ELSE LET aw == CDiv(h * 16, 9)
         IN  [w |-> w, h |-> h, xoff |-> CDiv(w - aw, 2), yoff |-> 0]
Geometry_floored(w, h) ==
    IF w = CDiv(h * 16, 9)
    THEN [w |-> w, h |-> h, xoff |-> 0, yoff |-> 0]
    ELSE IF w < CDiv(h * 16, 9)
    THEN LET ah == CDiv(w, 16) * 9
         IN  [w |-> w, h |-> ah, xoff |-> 0, yoff |-> CDiv(h - ah, 2)]
    ELSE LET aw == CDiv(h, 9) * 16
         IN  [w |-> aw, h |-> h, xoff |-> CDiv(w - aw, 2), yoff |-> 0]
Geometry_noExact(w, h) ==
    IF w <= CDiv(h * 16, 9)
    THEN LET ah == CDiv(w * 9, 16)
         IN  [w |-> w, h |-> ah, xoff |-> 0, yoff |-> CDiv(h - ah, 2)]
    ELSE LET aw == CDiv(h * 16, 9)
         IN  [w |-> aw, h |-> h, xoff |-> CDiv(w - aw, 2), yoff |-> 0]
Geometry_flipped(w, h) ==
    IF w = CDiv(h * 16, 9)
    THEN [w |-> w, h |-> h, xoff |-> 0, yoff |-> 0]
    ELSE IF w > CDiv(h * 16, 9)
    THEN LET ah == CDiv(w * 9, 16)
         IN  [w |-> w, h |-> ah, xoff |-> 0, yoff |-> CDiv(h - ah, 2)]
    ELSE LET aw == CDiv(h * 16, 9)
         IN  [w |-> aw, h |-> h, xoff |-> CDiv(w - aw, 2), yoff |-> 0]
Geometry(w, h) ==
    IF w = CDiv(h * 16, 9)
    THEN [w |-> w, h |-> h, xoff |-> 0, yoff |-> 0]
    ELSE IF w < CDiv(h * 16, 9)
    THEN LET ah == CDiv(w * 9, 16)
         IN  [w |-> w, h |-> ah, xoff |-> 0, yoff |-> CDiv(h - ah, 2)]
    ELSE LET aw == CDiv(h * 16, 9)
         IN  [w |-> aw, h |-> h, xoff |-> CDiv(w - aw, 2), yoff |-> 0]

\* line 114: the arguments of glvp, in its parameter order (x, y, width, height)
ViewportArgs(g) == <<g.xoff, g.yoff, g.w, g.h>>

\* glut calls init_manglers on a reshape event once glutReshapeFunc handed it over
init_manglers(w, h, found) ==
    /\ ~crashed
    /\ installed["reshape"] = "init_manglers"
    /\ Resolve("glViewport", found)
    /\ LET g == Geometry(w, h)
           glvp == Resolved("glViewport", found)
       IN  /\ act_w' = g.w
           /\ act_h' = g.h
           /\ act_xoff' = g.xoff
           /\ act_yoff' = g.yoff
           /\ IF glvp = NULL
              THEN crashed' = TRUE /\ calls' = <<>>
              ELSE /\ crashed' = crashed
                   /\ calls' = <<Call("real", glvp, "", NULL, ViewportArgs(g), 0)>>
    /\ win' = <<w, h>>
    /\ last' = Op("init_manglers", "", NULL, <<w, h>>, 0)
    /\ UNCHANGED <<thr, audioVars, glutVars, fs, installed>>

\* line 120: the handler handed to the real glutReshapeFunc
ReshapeHandler_app(func) == func
ReshapeHandler(func) == "init_manglers"

glutReshapeFunc(func, found) ==
    /\ ~crashed
    /\ Resolve("glutReshapeFunc", found)
    /\ LET f == Resolved("glutReshapeFunc", found) IN
       IF f = NULL
       THEN crashed' = TRUE /\ calls' = <<>> /\ installed' = installed
       ELSE /\ crashed' = crashed
            /\ calls' = <<Call("real", f, "", ReshapeHandler(func), <<>>, 0)>>
            /\ installed' = [installed EXCEPT !["reshape"] = ReshapeHandler(func)]
    /\ last' = Op("glutReshapeFunc", "", func, <<>>, 0)
    /\ UNCHANGED <<thr, audioVars, glutVars, geomVars, fs>>

\* lines 123-124: the application's own calls are swallowed
glViewport_forwards(x, y, width, height) ==
    /\ ~crashed
    /\ calls' = <<Call("real", "glViewport", "", NULL, <<x, y, width, height>>, 0)>>
    /\ last' = Op("glViewport", "", NULL, <<x, y, width, height>>, 0)
    /\ UNCHANGED <<thr, real, lookups, missing, audioVars, glutVars, geomVars, fs,
                   installed, crashed>>
glViewport(x, y, width, height) ==
    /\ ~crashed
    /\ calls' = <<>>
    /\ last' = Op("glViewport", "", NULL, <<x, y, width, height>>, 0)
    /\ UNCHANGED <<thr, real, lookups, missing, audioVars, glutVars, geomVars, fs,
                   installed, crashed>>

glutReshapeWindow_clearsFs(width, height) ==
    /\ ~crashed
    /\ calls' = <<>>
    /\ fs' = 0
    /\ last' = Op("glutReshapeWindow", "", NULL, <<width, height>>, 0)
    /\ UNCHANGED <<thr, real, lookups, missing, audioVars, glutVars, geomVars,
                   installed, crashed>>
glutReshapeWindow(width, height) ==
    /\ ~crashed
    /\ calls' = <<>>
    /\ last' = Op("glutReshapeWindow", "", NULL, <<width, height>>, 0)
    /\ UNCHANGED <<thr, real, lookups, missing, audioVars, glutVars, geomVars, fs,
                   installed, crashed>>

\* the switch of lines 133-148
KeyCase_qFallsThrough(key) ==
    IF key = KEY_q \/ key = KEY_f THEN "fullscreen" ELSE "forward"
KeyCase(key) ==
    IF key = KEY_q THEN "quit"
    ELSE IF key = KEY_f THEN "fullscreen"
    ELSE "forward"

\* lines 140 and 143: the flag after an 'f'
FsToggled_stuck(f) == 1
FsToggled(f) == IF f # 0 THEN 0 ELSE 1

\* glut calls faked_kbfunc on a key press once glutKeyboardFunc handed it over
faked_kbfunc(key, x, y, found) ==
    /\ ~crashed
    /\ installed["keyboard"] = "faked_kbfunc"
    /\ Resolve("glutReshapeWindow", found)
    /\ LET glrw == Resolved("glutReshapeWindow", found) IN
       CASE KeyCase(key) = "quit" ->
              /\ calls' = <<Call("lib", "glutLeaveMainLoop", "", NULL, <<>>, 0)>>
              /\ UNCHANGED <<fs, crashed>>
         [] KeyCase(key) = "fullscreen" ->
              IF fs # 0
              THEN IF glrw = NULL
                   THEN crashed' = TRUE /\ calls' = <<>> /\ fs' = fs
                   ELSE /\ calls' = <<Call("real", glrw, "", NULL,
                                           <<DEFAULT_W, DEFAULT_H>>, 0)>>
                        /\ fs' = FsToggled(fs)
                        /\ crashed' = crashed
              ELSE /\ calls' = <<Call("lib", "glutFullScreen", "", NULL, <<>>, 0)>>
                   /\ fs' = FsToggled(fs)
                   /\ crashed' = crashed
         [] OTHER ->
              /\ fs' = fs
              /\ IF fr_kbfunc = NULL
                 THEN crashed' = TRUE /\ calls' = <<>>
                 ELSE /\ crashed' = crashed
                      /\ calls' = <<Call("app", fr_kbfunc, "", NULL, <<key, x, y>>, 0)>>
    /\ last' = Op("faked_kbfunc", "", NULL, <<key, x, y>>, 0)
    /\ UNCHANGED <<thr, audioVars, glutVars, geomVars, installed>>

\* line 158: the handler handed to the real glutKeyboardFunc
KeyboardHandler(func) == "faked_kbfunc"

glutKeyboardFunc(func, found) ==
    /\ ~crashed
    /\ Resolve("glutKeyboardFunc", found)
    /\ fr_kbfunc' = func
    /\ LET f == Resolved("glutKeyboardFunc", found) IN
       IF f = NULL
       THEN crashed' = TRUE /\ calls' = <<>> /\ installed' = installed
       ELSE /\ crashed' = crashed
            /\ calls' = <<Call("real", f, "", KeyboardHandler(func), <<>>, 0)>>
            /\ installed' = [installed EXCEPT !["keyboard"] = KeyboardHandler(func)]
    /\ last' = Op("glutKeyboardFunc", "", func, <<>>, 0)
    /\ UNCHANGED <<thr, audioVars, fr_mousefunc, fr_motionfunc, geomVars, fs>>

\* lines 164 and 167: a window coordinate seen from the viewport's origin
Mangle_added(v, off) == v + off
Mangle(v, off) == v - off

faked_mousefunc(button, state, x, y) ==
    /\ ~crashed
    /\ installed["mouse"] = "faked_mousefunc"
    /\ IF fr_mousefunc = NULL
       THEN crashed' = TRUE /\ calls' = <<>>
       ELSE /\ crashed' = crashed
            /\ calls' = <<Call("app", fr_mousefunc, "", NULL,
                               <<button, state, Mangle(x, act_xoff), Mangle(y, act_yoff)>>, 0)>>
    /\ last' = Op("faked_mousefunc", "", NULL, <<button, state, x, y>>, 0)
    /\ UNCHANGED <<thr, real, lookups, missing, audioVars, glutVars, geomVars, fs, installed>>

faked_motionfunc(x, y) ==
    /\ ~crashed
    /\ installed["motion"] = "faked_motionfunc"
    /\ IF fr_motionfunc = NULL
       THEN crashed' = TRUE /\ calls' = <<>>
       ELSE /\ crashed' = crashed
            /\ calls' = <<Call("app", fr_motionfunc, "", NULL,
                               <<Mangle(x, act_xoff), Mangle(y, act_yoff)>>, 0)>>
    /\ last' = Op("faked_motionfunc", "", NULL, <<x, y>>, 0)
    /\ UNCHANGED <<thr, real, lookups, missing, audioVars, glutVars, geomVars, fs, installed>>

\* lines 174 and 180: the handlers handed to the real registration functions
MouseHandler(func) == "faked_mousefunc"
MotionHandler(func) == "faked_motionfunc"

glutMouseFunc(func, found) ==
    /\ ~crashed
    /\ Resolve("glutMouseFunc", found)
    /\ fr_mousefunc' = func
    /\ LET f == Resolved("glutMouseFunc", found) IN
       IF f = NULL
       THEN crashed' = TRUE /\ calls' = <<>> /\ installed' = installed
       ELSE /\ crashed' = crashed
            /\ calls' = <<Call("real", f, "", MouseHandler(func), <<>>, 0)>>
            /\ installed' = [installed EXCEPT !["mouse"] = MouseHandler(func)]
    /\ last' = Op("glutMouseFunc", "", func, <<>>, 0)
    /\ UNCHANGED <<thr, audioVars, fr_kbfunc, fr_motionfunc, geomVars, fs>>

glutPassiveMotionFunc(func, found) ==
    /\ ~crashed
    /\ Resolve("glutPassiveMotionFunc", found)
    /\ fr_motionfunc' = func
    /\ LET f == Resolved("glutPassiveMotionFunc", found) IN
       IF f = NULL
       THEN crashed' = TRUE /\ calls' = <<>> /\ installed' = installed
       ELSE /\ crashed' = crashed
            /\ calls' = <<Call("real", f, "", MotionHandler(func), <<>>, 0)>>
            /\ installed' = [installed EXCEPT !["motion"] = MotionHandler(func)]
    /\ last' = Op("glutPassiveMotionFunc", "", func, <<>>, 0)
    /\ UNCHANGED <<thr, audioVars, fr_kbfunc, fr_mousefunc, geomVars, fs>>

----------------------------------------------------------------------------
(* The inputs the environment can supply *)

\* callbacks of the application; a registration may also pass a null pointer
Callbacks == {"cb1", "cb2"}
CallbackArgs == Callbacks \cup {NULL}

\* snd_pcm_open: device names, SND_PCM_STREAM_*, mode flags, results
Names == {"plughw:0,0", "hw:1,0", "default"}
Streams == {0, 1}
Modes == {0, 1}
OpenRets == {0, -2, -16}

\* async handlers, results of the registration and of the delay query
Handlers == {1, 2}
AddRets == {0, -38}
QueryErrs == {0, -32}
Delays == {-1, 0, FIXDELAY - 1, FIXDELAY, FIXDELAY + 1, 4 * FIXDELAY}

\* window sizes: every size up to MaxDim, and the three reference sizes
RefSizes == {<<1920, 1080>>, <<1000, 1000>>, <<2000, 900>>}
Sizes == ((0..MaxDim) \X (0..MaxDim)) \cup RefSizes
\* a few sizes of each kind: empty, exact, width- and height-constrained
FewSizes == {<<0, 0>>, <<16, 9>>, <<10, 10>>, <<20, 9>>}

\* keys: 'q', 'f', their capitals, and a key of the game
Keys == {KEY_q, KEY_f, KEY_q - 32, KEY_f - 32, 97}
Coords == {0, 5}
Buttons == {0, 2}
ButtonStates == {0, 1}

----------------------------------------------------------------------------
(* Process start: every static and global is zero, nothing is registered *)

Init ==
    /\ real = [s \in Symbols |-> NULL]
    /\ lookups = [s \in Symbols |-> 0]
    /\ missing = {}
    /\ fr_callback = NULL
    /\ fr_kbfunc = NULL
    /\ fr_mousefunc = NULL
    /\ fr_motionfunc = NULL
    /\ act_w = 0 /\ act_h = 0 /\ act_xoff = 0 /\ act_yoff = 0
    /\ fs = 0
    /\ installed = [k \in Hooks |-> "none"]
    /\ win = <<>>
    /\ crashed = FALSE
    /\ last = Op("start", "", NULL, <<>>, 0)
    /\ calls = <<>>
    /\ thr = [t \in Threads |-> Idle]

(* The audio functions *)
NextAudio ==
    \/ \E name \in Names, stream \in Streams, mode \in Modes,
          ret \in OpenRets, found \in BOOLEAN :
          snd_pcm_open(1, name, stream, mode, ret, found)
    \/ \E handler \in Handlers, callback \in CallbackArgs,
          ret \in AddRets, found \in BOOLEAN :
          snd_async_add_pcm_handler(handler, PcmOf(handler), callback, 0, ret, found)
    \/ \E ahandler \in Handlers, err \in QueryErrs, d \in Delays :
          fake_callback(ahandler, err, d)

(* The resize handler over every window size *)
NextGeom ==
    \/ \E func \in CallbackArgs, found \in BOOLEAN : glutReshapeFunc(func, found)
    \/ \E sz \in Sizes, found \in BOOLEAN : init_manglers(sz[1], sz[2], found)

(* The display/input group *)
NextInput ==
    \/ \E func \in CallbackArgs, found \in BOOLEAN : glutReshapeFunc(func, found)
    \/ \E sz \in FewSizes, found \in BOOLEAN : init_manglers(sz[1], sz[2], found)
    \/ \E sz \in FewSizes : glViewport(0, 0, sz[1], sz[2])
    \/ \E sz \in FewSizes : glutReshapeWindow(sz[1], sz[2])
    \/ \E func \in CallbackArgs, found \in BOOLEAN : glutKeyboardFunc(func, found)
    \/ \E key \in Keys, x \in Coords, y \in Coords, found \in BOOLEAN :
          faked_kbfunc(key, x, y, found)
    \/ \E func \in CallbackArgs, found \in BOOLEAN : glutMouseFunc(func, found)
    \/ \E func \in CallbackArgs, found \in BOOLEAN : glutPassiveMotionFunc(func, found)
    \/ \E button \in Buttons, state \in ButtonStates, x \in Coords, y \in Coords :
          faked_mousefunc(button, state, x, y)
    \/ \E x \in Coords, y \in Coords : faked_motionfunc(x, y)

SpecAudio == Init /\ [][NextAudio]_vars
SpecGeom == Init /\ [][NextGeom]_vars
SpecInput == Init /\ [][NextInput]_vars

(* The whole shim, every function and wrapper, over one input of each kind *)
Next ==
    \/ \E ret \in {0, -2}, found \in BOOLEAN :
          snd_pcm_open(1, "plughw:0,0", 0, 0, ret, found)
    \/ \E callback \in {"cb1", NULL}, ret \in AddRets, found \in BOOLEAN :
          snd_async_add_pcm_handler(1, PcmOf(1), callback, 0, ret, found)
    \/ \E err \in QueryErrs, d \in {FIXDELAY - 1, FIXDELAY} : fake_callback(1, err, d)
    \/ \E found \in BOOLEAN : glutReshapeFunc("cb2", found)
    \/ \E sz \in {<<10, 10>>, <<20, 9>>}, found \in BOOLEAN :
          init_manglers(sz[1], sz[2], found)
    \/ glViewport(0, 0, 10, 10)
    \/ glutReshapeWindow(10, 10)
    \/ \E func \in {"cb1", NULL}, found \in BOOLEAN : glutKeyboardFunc(func, found)
    \/ \E key \in {KEY_q, KEY_f, 97}, found \in BOOLEAN : faked_kbfunc(key, 5, 5, found)
    \/ \E func \in {"cb1", NULL}, found \in BOOLEAN : glutMouseFunc(func, found)
    \/ \E func \in {"cb1", NULL}, found \in BOOLEAN : glutPassiveMotionFunc(func, found)
    \/ faked_mousefunc(0, 0, 5, 5)
    \/ faked_motionfunc(5, 5)

Spec == Init /\ [][Next]_vars

----------------------------------------------------------------------------
(* Properties *)

\* the inputs of the call that produced the current state
LastW == last.args[1]
LastH == last.args[2]
Stored == [w |-> act_w, h |-> act_h, xoff |-> act_xoff, yoff |-> act_yoff]
\* the geometry of the most recent reshape event, all zero before the first
Current == IF win = <<>> THEN [w |-> 0, h |-> 0, xoff |-> 0, yoff |-> 0]
           ELSE Geometry(win[1], win[2])

\* C1: after init_manglers(w,h), w,h >= 0, the stored rectangle fits in the
\* window and is centred on both axes: act_xoff + act_w <= w,
\* act_yoff + act_h <= h, act_xoff = (w - act_w)/2, act_yoff = (h - act_h)/2.
C1_FitsAndCentred ==
    last.op = "init_manglers" =>
        /\ act_xoff + act_w <= LastW
        /\ act_yoff + act_h <= LastH
        /\ act_xoff = CDiv(LastW - act_w, 2)
        /\ act_yoff = CDiv(LastH - act_h, 2)

\* a letterboxed window: bars above and below, of odd total height
C1_Witness ==
    /\ last.op = "init_manglers"
    /\ act_w = LastW /\ act_xoff = 0
    /\ act_yoff > 0
    /\ (LastH - act_h) % 2 = 1

\* C2: after init_manglers(w,h), w,h >= 0, the stored rectangle is 16:9 up to
\* truncation, in all three branches: act_w = (act_h*16)/9 or
\* act_h = (act_w*9)/16.
C2_SixteenByNine ==
    last.op = "init_manglers" =>
        \/ act_w = CDiv(act_h * 16, 9)
        \/ act_h = CDiv(act_w * 9, 16)

\* a pillarboxed window whose width was truncated
C2_Witness ==
    /\ last.op = "init_manglers"
    /\ act_h = LastH /\ act_xoff > 0
    /\ act_w * 9 # act_h * 16

\* C3: init_manglers gives (1920,1080) -> 1920x1080 at (0,0),
\* (1000,1000) -> 1000x562 at (0,219), (2000,900) -> 1600x900 at (200,0), and
\* calls the real glViewport exactly once, with (act_xoff, act_yoff, act_w,
\* act_h), whenever the process survives the call.
C3_ReferenceSizes ==
    last.op = "init_manglers" =>
        /\ last.args = <<1920, 1080>> =>
               Stored = [w |-> 1920, h |-> 1080, xoff |-> 0, yoff |-> 0]
        /\ last.args = <<1000, 1000>> =>
               Stored = [w |-> 1000, h |-> 562, xoff |-> 0, yoff |-> 219]
        /\ last.args = <<2000, 900>> =>
               Stored = [w |-> 1600, h |-> 900, xoff |-> 200, yoff |-> 0]
        /\ ~crashed =>
               calls = <<Call("real", "glViewport", "", NULL,
                              <<act_xoff, act_yoff, act_w, act_h>>, 0)>>

C3_Witness ==
    /\ last.op = "init_manglers"
    /\ last.args = <<1000, 1000>>
    /\ Len(calls) = 1
    /\ calls[1].args = <<0, 219, 1000, 562>>

\* the inputs of a tick: the handler, the query's result, the delay read
TickHandler == last.args[1]
TickErr == last.args[2]
TickDelay == last.args[3]

\* C4: on every tick of fake_callback with a callback registered and the
\* delay query answered: a delay strictly below FIXDELAY invokes the stored
\* callback exactly once, with the tick's handler; a delay equal to or above
\* FIXDELAY invokes it not at all.
C4_TriggerBelowThreshold ==
    (last.op = "fake_callback" /\ fr_callback # NULL /\ TickErr = 0) =>
        /\ TickDelay < FIXDELAY =>
               AppCalls = <<Call("app", fr_callback, "", NULL, <<TickHandler>>, 0)>>
        /\ TickDelay >= FIXDELAY => AppCalls = <<>>

\* the last delay that still triggers
C4_Witness ==
    /\ last.op = "fake_callback" /\ TickErr = 0
    /\ TickDelay = FIXDELAY - 1
    /\ Len(AppCalls) = 1
    /\ AppCalls[1].fn = "cb2"

\* C5: the real counterpart of every function is looked up on its first call
\* only (at most one dlsym per symbol), and a populated slot holds the address
\* that one lookup found.
C5_ResolvedOnFirstCallOnly ==
    \A s \in Symbols :
        /\ lookups[s] <= 1
        /\ real[s] # NULL => (lookups[s] = 1 /\ real[s] = s)

\* the key, and the flag on entry, of a key press
LastKey == last.args[1]

\* C6: in faked_kbfunc key 'q' calls glutLeaveMainLoop exactly once and
\* nothing else; any key other than 'q' and 'f' is forwarded exactly once to
\* the stored handler with the same (key, x, y) and nothing else is called;
\* neither changes the fullscreen flag.
C6_QuitAndForward ==
    [][(last'.op = "faked_kbfunc" /\ LastKey' # KEY_f) =>
          /\ fs' = fs
          /\ LastKey' = KEY_q =>
                 calls' = <<Call("lib", "glutLeaveMainLoop", "", NULL, <<>>, 0)>>
          /\ (LastKey' # KEY_q /\ fr_kbfunc # NULL) =>
                 calls' = <<Call("app", fr_kbfunc, "", NULL, last'.args, 0)>>
      ]_vars

\* 'q' pressed while fullscreen
C6_Witness ==
    /\ last.op = "faked_kbfunc" /\ LastKey = KEY_q
    /\ fs = 1
    /\ Len(calls) = 1 /\ calls[1].fn = "glutLeaveMainLoop"

\* C7: the flag starts at 0 and every 'f' press the process survives flips it:
\* from 0 it calls glutFullScreen, from 1 it calls the real glutReshapeWindow
\* with (1280,720); so successive presses alternate, the first entering
\* fullscreen.  An 'f' is never forwarded to the application's handler.
C7_FullscreenAlternates ==
    /\ fs = 0
    /\ [][(last'.op = "faked_kbfunc" /\ LastKey' = KEY_f /\ ~crashed') =>
             /\ fs \in {0, 1} /\ fs' = 1 - fs
             /\ fs = 0 =>
                    calls' = <<Call("lib", "glutFullScreen", "", NULL, <<>>, 0)>>
             /\ fs = 1 =>
                    calls' = <<Call("real", "glutReshapeWindow", "", NULL,
                                    <<1280, 720>>, 0)>>
         ]_vars

\* an 'f' that left fullscreen
C7_Witness ==
    /\ last.op = "faked_kbfunc" /\ LastKey = KEY_f
    /\ fs = 0
    /\ Len(calls) = 1 /\ calls[1].fn = "glutReshapeWindow"
    /\ calls[1].kind = "real"

\* C8: faked_mousefunc and faked_motionfunc forward exactly once to the
\* stored handler, with (x - act_xoff, y - act_yoff), the offsets being those
\* of the most recent reshape event, and button and state unchanged; with
\* both offsets 0 the coordinates are forwarded as reported.
C8_MouseRemap ==
    /\ (last.op = "faked_mousefunc" /\ fr_mousefunc # NULL) =>
           /\ calls = <<Call("app", fr_mousefunc, "", NULL,
                             <<last.args[1], last.args[2],
                               last.args[3] - act_xoff, last.args[4] - act_yoff>>, 0)>>
           /\ act_xoff = Current.xoff /\ act_yoff = Current.yoff
           /\ (act_xoff = 0 /\ act_yoff = 0) => calls[1].args = last.args
    /\ (last.op = "faked_motionfunc" /\ fr_motionfunc # NULL) =>
           /\ calls = <<Call("app", fr_motionfunc, "", NULL,
                             <<last.args[1] - act_xoff, last.args[2] - act_yoff>>, 0)>>
           /\ act_xoff = Current.xoff /\ act_yoff = Current.yoff
           /\ (act_xoff = 0 /\ act_yoff = 0) => calls[1].args = last.args

\* a click in a letterboxed window
C8_Witness ==
    /\ last.op = "faked_mousefunc"
    /\ win = <<10, 10>> /\ act_yoff = 2
    /\ Len(calls) = 1
    /\ last.args = <<2, 1, 5, 5>>
    /\ calls[1].args = <<2, 1, 5, 3>>

\* C9: every call of snd_pcm_open the process survives forwards exactly once
\* to the real snd_pcm_open, with the name replaced by "default" whatever the
\* caller gave and pcm, stream and mode unchanged, and returns what it returned.
C9_OpensDefault ==
    (last.op = "snd_pcm_open" /\ ~crashed) =>
        /\ Len(calls) = 1
        /\ calls[1] = Call("real", "snd_pcm_open", "default", NULL, last.args, last.ret)

\* the application asked for plughw:0,0 and the default device was busy
C9_Witness ==
    /\ last.op = "snd_pcm_open" /\ last.name = "plughw:0,0"
    /\ Len(calls) = 1 /\ calls[1].name = "default"
    /\ last.ret = -16

\* C10: on a tick whose delay query failed, the wrapper does not invoke the
\* application's callback.
C10_FailedQuerySkips ==
    (last.op = "fake_callback" /\ TickErr # 0) => AppCalls = <<>>

\* the slot a wrapper forwards to, and the hook the wrapper is installed in
SlotOf(k) == CASE k = "pcm" -> fr_callback
               [] k = "keyboard" -> fr_kbfunc
               [] k = "mouse" -> fr_mousefunc
               [] k = "motion" -> fr_motionfunc
WrapperOf(k) == CASE k = "pcm" -> "fake_callback"
                  [] k = "keyboard" -> "faked_kbfunc"
                  [] k = "mouse" -> "faked_mousefunc"
                  [] k = "motion" -> "faked_motionfunc"
SlotHooks == {"pcm", "keyboard", "mouse", "motion"}

\* C11: whenever the real library holds a wrapper (fake_callback,
\* faked_kbfunc, faked_mousefunc, faked_motionfunc) and so can invoke it, the
\* matching slot holds a non-empty callback, whatever was registered,
\* a null callback included.
C11_SlotPopulatedWhenInstalled ==
    \A k \in SlotHooks : installed[k] = WrapperOf(k) => SlotOf(k) # NULL

\* C12: fr_callback goes from not captured (empty) to captured only in
\* snd_async_add_pcm_handler, and once captured it never returns to the
\* not-captured state, whatever is registered later.
C12_CapturedOnceForGood ==
    [][/\ (fr_callback = NULL /\ fr_callback' # NULL) =>
              last'.op = "snd_async_add_pcm_handler"
       /\ fr_callback # NULL => fr_callback' # NULL
      ]_vars

\* a dlsym for symbol s was made in this step and found nothing
LookupFailed(s) == lookups'[s] = lookups[s] + 1 /\ real'[s] = NULL

\* C13: a call whose lookup of the real symbol fails does not proceed: it
\* calls neither the real library nor the application's handler and leaves
\* the shim's state (callback slots, geometry, fullscreen flag) as it was.
C13_FailedLookupStopsCall ==
    [][(\E s \in Symbols : LookupFailed(s)) =>
          /\ calls' = <<>>
          /\ UNCHANGED <<fr_callback, fr_kbfunc, fr_mousefunc, fr_motionfunc,
                         act_w, act_h, act_xoff, act_yoff, fs>>
      ]_vars

\* the registration functions, the hook each fills and the symbol each wraps
RegHooks == [snd_async_add_pcm_handler |-> "pcm", glutKeyboardFunc |-> "keyboard",
             glutMouseFunc |-> "mouse", glutPassiveMotionFunc |-> "motion"]
RegOps == DOMAIN RegHooks

\* C14: every call of snd_async_add_pcm_handler, glutKeyboardFunc,
\* glutMouseFunc or glutPassiveMotionFunc overwrites its slot with the
\* callback supplied and, when the process survives it, forwards exactly one
\* registration to the real library, carrying the shim's wrapper and never
\* the application's callback; nothing else writes a slot, and a wrapper
\* forwards only to the callback its slot holds, the one registered last.
C14_LastWriteWins ==
    [][/\ \A op \in RegOps :
            LET k == RegHooks[op] IN
            /\ last'.op = op =>
                   /\ SlotOf(k)' = last'.cb
                   /\ ~crashed' =>
                          calls' = <<Call("real", op, "", WrapperOf(k),
                                          last'.args, last'.ret)>>
            /\ last'.op # op => SlotOf(k)' = SlotOf(k)
            /\ last'.op = WrapperOf(k) =>
                   \A i \in 1..Len(AppCalls') : AppCalls'[i].fn = SlotOf(k)
      ]_vars

\* a tick forwarded to cb1, the callback its slot holds, each slot holding its own
C14_Witness ==
    /\ last.op = "fake_callback"
    /\ fr_callback = "cb1"
    /\ Len(AppCalls) = 1 /\ AppCalls[1].fn = "cb1"
    /\ fr_kbfunc = "cb2" /\ fr_mousefunc = "cb1" /\ fr_motionfunc = "cb2"

(* The four registrations with every callback, and their wrappers *)
NextReg ==
    \/ \E callback \in CallbackArgs, ret \in AddRets, found \in BOOLEAN :
          snd_async_add_pcm_handler(1, PcmOf(1), callback, 0, ret, found)
    \/ \E d \in {FIXDELAY - 1, FIXDELAY} : fake_callback(1, 0, d)
    \/ \E func \in CallbackArgs, found \in BOOLEAN : glutKeyboardFunc(func, found)
    \/ \E key \in {KEY_q, 97}, found \in BOOLEAN : faked_kbfunc(key, 5, 5, found)
    \/ \E func \in CallbackArgs, found \in BOOLEAN : glutMouseFunc(func, found)
    \/ \E func \in CallbackArgs, found \in BOOLEAN : glutPassiveMotionFunc(func, found)
    \/ faked_mousefunc(0, 0, 5, 5)
    \/ faked_motionfunc(5, 5)

SpecReg == Init /\ [][NextReg]_vars

\* the calls of this step that reached the real entry point fn
RealCallsTo(fn) == SelectSeq(calls, LAMBDA c : c.kind = "real" /\ c.fn = fn)

\* C15: the application's own calls of glViewport and glutReshapeWindow call
\* nothing and leave geometry, fullscreen flag, callback slots, resolved
\* symbols and registrations unchanged; the real glViewport is called only
\* by init_manglers, the real glutReshapeWindow only by an 'f' key press
\* that turns fullscreen off.
C15_SuppressedCalls ==
    [][/\ last'.op \in {"glViewport", "glutReshapeWindow"} =>
              /\ calls' = <<>>
              /\ UNCHANGED <<act_w, act_h, act_xoff, act_yoff, fs, fr_callback,
                             fr_kbfunc, fr_mousefunc, fr_motionfunc, real,
                             installed, crashed>>
       /\ RealCallsTo("glViewport")' # <<>> => last'.op = "init_manglers"
       /\ RealCallsTo("glutReshapeWindow")' # <<>> =>
              /\ last'.op = "faked_kbfunc" /\ LastKey' = KEY_f
              /\ fs = 1 /\ fs' = 0
      ]_vars

\* the application sets a viewport of its own after the shim letterboxed
C15_Witness ==
    /\ last.op = "glViewport"
    /\ calls = <<>>
    /\ win = <<10, 10>> /\ Stored = Geometry(10, 10)
    /\ real["glViewport"] = "glViewport"

\* the reshape handler the application registers in Spec, where no other
\* registration uses it
AppReshape == "cb2"

\* C16: every call of glutReshapeFunc the process survives hands
\* init_manglers to the real glutReshapeFunc; the application's handler is
\* stored in no slot, handed to no library and called by no wrapper, after
\* any sequence of registrations and reshape events.
C16_ReshapeHandlerDiscarded ==
    /\ (last.op = "glutReshapeFunc" /\ ~crashed) =>
           /\ calls = <<Call("real", "glutReshapeFunc", "", "init_manglers", <<>>, 0)>>
           /\ installed["reshape"] = "init_manglers"
    /\ last.op = "init_manglers" => AppCalls = <<>>
    /\ AppReshape \notin {fr_callback, fr_kbfunc, fr_mousefunc, fr_motionfunc}
    /\ \A k \in Hooks : installed[k] # AppReshape
    /\ \A i \in 1..Len(calls) : calls[i].fn # AppReshape /\ calls[i].cb # AppReshape

\* a reshape event handled after the application registered its handler
C16_Witness ==
    /\ last.op = "init_manglers"
    /\ installed["reshape"] = "init_manglers"
    /\ ~crashed
    /\ Len(calls) = 1 /\ calls[1].fn = "glViewport"
    /\ fr_kbfunc = "cb1"

\* C17: for w,h >= 0 init_manglers chooses by comparing w with (h*16)/9:
\* equal, the full window with both offsets 0; smaller, act_w = w and
\* act_h = (w*9)/16; larger, act_h = h and act_w = (h*16)/9.  In every case
\* one stored dimension is the window's.
C17_ThreeWayChoice ==
    last.op = "init_manglers" =>
        LET bound == CDiv(LastH * 16, 9) IN
        /\ act_w = LastW \/ act_h = LastH
        /\ act_w <= LastW /\ act_h <= LastH
        /\ LastW = bound =>
               Stored = [w |-> LastW, h |-> LastH, xoff |-> 0, yoff |-> 0]
        /\ LastW < bound => (act_w = LastW /\ act_h = CDiv(LastW * 9, 16))
        /\ LastW > bound => (act_h = LastH /\ act_w = bound)

\* the exact branch taken by a window that is not exactly 16:9 (17 x 10)
C17_Witness ==
    /\ last.op = "init_manglers"
    /\ LastW = CDiv(LastH * 16, 9)
    /\ LastW * 9 # LastH * 16
    /\ act_w = LastW /\ act_h = LastH

\* C18: the fullscreen flag changes only in faked_kbfunc handling 'f', the
\* four geometry values only in init_manglers; every other call (mouse and
\* keyboard wrappers, registrations, audio functions, the suppressed
\* glViewport and glutReshapeWindow) leaves them as they were.
C18_Ownership ==
    [][/\ fs' # fs => (last'.op = "faked_kbfunc" /\ LastKey' = KEY_f)
       /\ <<act_w, act_h, act_xoff, act_yoff>>' # <<act_w, act_h, act_xoff, act_yoff>>
              => last'.op = "init_manglers"
      ]_vars

\* a click while fullscreen in a pillarboxed window: both kept
C18_Witness ==
    /\ last.op = "faked_mousefunc"
    /\ fs = 1
    /\ Stored = Geometry(20, 9) /\ act_xoff = 2
    /\ Len(calls) = 1

\* C20: from process start and after any reshape events with w,h >= 0 both
\* stored offsets are non-negative and at most one is non-zero; before the
\* first reshape event both are 0, so the mouse wrappers' subtraction leaves
\* coordinates as reported.
C20_OffsetsInvariant ==
    /\ act_xoff >= 0 /\ act_yoff >= 0
    /\ act_xoff = 0 \/ act_yoff = 0
    /\ win = <<>> =>
           /\ act_xoff = 0 /\ act_yoff = 0
           /\ \A v \in Coords : Mangle(v, act_xoff) = v /\ Mangle(v, act_yoff) = v

\* a tall window: the largest vertical offset of the range
C20_Witness ==
    /\ last.op = "init_manglers"
    /\ win = <<1, MaxDim>>
    /\ act_xoff = 0 /\ act_yoff = MaxDim \div 2

----------------------------------------------------------------------------
(* Two threads inside snd_pcm_open and snd_async_add_pcm_handler.  The      *)
(* static slot is read, filled and read again with no lock and no atomic,  *)
(* so the statements of lines 36-37 and 77-80 interleave.                  *)

RaceFns == {"snd_pcm_open", "snd_async_add_pcm_handler"}

\* a thread enters one of the two functions
Enter(t, fn, cb) ==
    /\ ~crashed
    /\ thr[t].pc = "idle"
    /\ thr' = [thr EXCEPT ![t] = [pc |-> "test", fn |-> fn, cb |-> cb, res |-> NULL]]
    /\ UNCHANGED <<real, lookups, missing, audioVars, glutVars, geomVars, fs,
                   installed, crashed, last, calls>>

\* if (!real_func)
TestSlot(t) ==
    /\ ~crashed
    /\ thr[t].pc = "test"
    /\ thr' = [thr EXCEPT ![t].pc = IF real[thr[t].fn] = NULL THEN "dlsym" ELSE "call"]
    /\ UNCHANGED <<real, lookups, missing, audioVars, glutVars, geomVars, fs,
                   installed, crashed, last, calls>>

\* dlsym(RTLD_NEXT, ..): the answer is the same for every caller
Dlsym(t, found) ==
    /\ ~crashed
    /\ thr[t].pc = "dlsym"
    /\ LET s == thr[t].fn IN
       /\ lookups[s] < MaxLookups
       /\ s \in missing => ~found
       /\ real[s] # NULL => found
       /\ lookups' = [lookups EXCEPT ![s] = @ + 1]
       /\ missing' = IF found THEN missing ELSE missing \cup {s}
       /\ thr' = [thr EXCEPT ![t].pc = "store",
                             ![t].res = IF found THEN s ELSE NULL]
    /\ UNCHANGED <<real, audioVars, glutVars, geomVars, fs, installed, crashed,
                   last, calls>>

\* real_func = <the result>
StoreSlot(t) ==
    /\ ~crashed
    /\ thr[t].pc = "store"
    /\ real' = [real EXCEPT ![thr[t].fn] = thr[t].res]
    /\ thr' = [thr EXCEPT ![t].pc = "call"]
    /\ UNCHANGED <<lookups, missing, audioVars, glutVars, geomVars, fs,
                   installed, crashed, last, calls>>

\* lines 37 and 79-80: the rest of the function, through the slot
CallThrough(t, ret) ==
    /\ ~crashed
    /\ thr[t].pc = "call"
    /\ LET fn == thr[t].fn
           f == real[fn]
       IN  /\ fr_callback' = IF fn = "snd_async_add_pcm_handler"
                             THEN thr[t].cb ELSE fr_callback
           /\ IF f = NULL
              THEN /\ crashed' = TRUE
                   /\ calls' = <<>>
                   /\ installed' = installed
                   /\ last' = Op(fn, IF fn = "snd_pcm_open" THEN "plughw:0,0" ELSE "",
                                 thr[t].cb, <<t, 0, 0>>, 0)
              ELSE /\ crashed' = crashed
                   /\ calls' = IF fn = "snd_pcm_open"
                               THEN <<Call("real", f, OpenName("plughw:0,0"), NULL,
                                           <<t, 0, 0>>, ret)>>
                               ELSE <<Call("real", f, "", AddHandlerCallback(thr[t].cb),
                                           <<t, PcmOf(t), 0>>, ret)>>
                   /\ installed' = IF fn = "snd_async_add_pcm_handler" /\ ret = 0
                                   THEN [installed EXCEPT !["pcm"] =
                                            AddHandlerCallback(thr[t].cb)]
                                   ELSE installed
                   /\ last' = Op(fn, IF fn = "snd_pcm_open" THEN "plughw:0,0" ELSE "",
                                 thr[t].cb,
                                 IF fn = "snd_pcm_open" THEN <<t, 0, 0>>
                                 ELSE <<t, PcmOf(t), 0>>, ret)
    /\ thr' = [thr EXCEPT ![t] = Idle]
    /\ UNCHANGED <<real, lookups, missing, glutVars, geomVars, fs>>

NextRace ==
    \/ \E t \in Threads : Enter(t, "snd_pcm_open", NULL)
    \/ \E t \in Threads, cb \in Callbacks : Enter(t, "snd_async_add_pcm_handler", cb)
    \/ \E t \in Threads : TestSlot(t)
    \/ \E t \in Threads, found \in BOOLEAN : Dlsym(t, found)
    \/ \E t \in Threads : StoreSlot(t)
    \/ \E t \in Threads, ret \in {0, -2} : CallThrough(t, ret)

SpecRace == Init /\ [][NextRace]_vars

\* C19: when two threads make the first call of the same function at the
\* same time, its real symbol is looked up at most once and its slot is
\* written at most once, in every interleaving: no symbol has two lookups
\* and no thread is about to write a slot that is already populated.
C19_OnceUnderConcurrentFirstUse ==
    /\ \A s \in Symbols : lookups[s] <= 1
    /\ \A t \in Threads : thr[t].pc = "store" => real[thr[t].fn] = NULL

====
